---- MODULE Spec2Model ----
(***************************************************************************)
(* Model of request_run_wasm.go (package structuredhttp, js/wasm build):   *)
(* Request.Run and the helpers it is built from -- promiseHack, fetch,     *)
(* createSignal, createReadableStream, fetch2http, blobReader.Read -- run   *)
(* against a host (the JavaScript runtime) that settles promises, fires    *)
(* timers, pulls the request body and serves the response body.            *)
(*                                                                         *)
(* Time is counted in units of 1/UnitsPerMs millisecond, so that the       *)
(* truncation done by time.Duration.Milliseconds() is visible.             *)
(*                                                                         *)
(* The host is taken to do what the code expects of it: the function       *)
(* handed to setTimeout aborts the controller when the timer elapses, the  *)
(* function the stream's start returns is what the host calls for each     *)
(* pull of the request body, an abort makes a pending fetch reject, and a  *)
(* resolved response yields its blob unless the request was aborted.       *)
(*                                                                         *)
(* Spec is Run from its call to its return or panic; SpecBody is Run of a  *)
(* plain request followed by the caller's reads of the Response body.      *)
(***************************************************************************)
EXTENDS Integers, Sequences, FiniteSets

VARIABLES
    r,              \* the Request: Error, Method, CurrentReader, CurrentTimeout
    DefaultTimeout, \* the package-level default timeout (duration, in units)
    pc,             \* where the calling goroutine is
    ret,            \* what Run returned: [resp, err]
    srcPos,         \* bytes of r.CurrentReader consumed so far
    timer,          \* the setTimeout armed by createSignal
    aborted,        \* controller.abort has been called
    now,            \* host clock, in units
    host,           \* what the host was asked to do and has done
    promise,        \* the promise promiseHack is waiting on
    cbq,            \* callback turns still owed to the current promiseHack
    lateq,          \* callback turns owed to a promiseHack that already returned
    cell,           \* promiseHack's captured variables: done, res, err
    out,            \* what the last promiseHack call returned
    rd              \* the caller's reads of Response.Body

vars == <<r, DefaultTimeout, pc, ret, srcPos, timer, aborted, now, host,
          promise, cbq, lateq, cell, out, rd>>

----------------------------------------------------------------------------
(* Bounds of the model *)

\* time units per millisecond
UnitsPerMs == 2
\* longest timeout, in units
MaxDur == 3
\* longest host delay before the fetch promise settles, in units
MaxDelay == 3
\* longest request body, in bytes
MaxBody == 2
\* most chunks in a response body, and the longest chunk
MaxChunks == 2
MaxChunkLen == 2
\* longest buffer the caller hands to Read, and the most Read calls
MaxBuf == 2
MaxReads == 4

(* Program constants *)

\* b := make([]byte, 100)
ChunkSize == 100

----------------------------------------------------------------------------
(* Values *)

Min(a, b) == IF a < b THEN a ELSE b

RECURSIVE Flatten(_)
Flatten(ss) == IF ss = <<>> THEN <<>> ELSE Head(ss) \o Flatten(Tail(ss))

RECURSIVE SumLen(_)
SumLen(ss) == IF ss = <<>> THEN 0 ELSE Len(Head(ss)) + SumLen(Tail(ss))

\* the bytes i+1 .. i+n: every byte of a body is distinct, so that a lost,
\* repeated or misplaced byte shows
Bytes(i, n) == [k \in 1..n |-> i + k]

\* a Go error value
NoErr == [nil |-> TRUE, msg |-> ""]
errorsNew(m) == [nil |-> FALSE, msg |-> m]
EOF == errorsNew("EOF")

\* JavaScript values handed to Go
Undefined == [t |-> "undefined"]
Null == [t |-> "null"]

\* Rejection payloads: what the catch callback receives.  kind "noargs" is
\* a callback invoked with no argument at all; str is String(payload).
Payload(kind, hasMessage, message, str) ==
    [kind |-> kind, hasMessage |-> hasMessage, message |-> message, str |-> str]
NetError == Payload("object", TRUE, "Failed to fetch", "TypeError: Failed to fetch")
AbortError == Payload("object", TRUE, "The user aborted a request.", "AbortError: The user aborted a request.")
PlainObject == Payload("object", FALSE, "", "[object Object]")
StringPayload == Payload("string", FALSE, "", "boom")
UndefinedPayload == Payload("undefined", FALSE, "", "undefined")
NoArgs == Payload("noargs", FALSE, "", "")
Payloads == {NetError, PlainObject, StringPayload, UndefinedPayload, NoArgs}

\* Host response objects: status, statusText, the entries headers.forEach
\* enumerates (name, value), and the body as the chunks its stream delivers.
ChunkLens == UNION {[1..k -> 1..MaxChunkLen] : k \in 0..MaxChunks}
RECURSIVE Chunks(_, _)
Chunks(lens, i) ==
    IF lens = <<>> THEN <<>>
    ELSE <<Bytes(i, Head(lens))>> \o Chunks(Tail(lens), i + Head(lens))
HostBodies == {Chunks(lens, 0) : lens \in ChunkLens}
HostHeads ==
    { [status |-> 200, statusText |-> "OK",
       headers |-> << <<"etag", "a">> >>],
      [status |-> 404, statusText |-> "Not Found",
       headers |-> << <<"x-id", "a">>, <<"x-id", "b">> >>] }
HostResponse(hd, body) ==
    [t |-> "response", status |-> hd.status, statusText |-> hd.statusText,
     headers |-> hd.headers, body |-> body]
HostResponses == {HostResponse(hd, body) : hd \in HostHeads, body \in HostBodies}
HostBlob(body) == [t |-> "blob", size |-> SumLen(body), body |-> body]
ReadResult(isDone, value) == [t |-> "result", done |-> isDone, value |-> value]

\* The Request.  CurrentTimeout is a *time.Duration and CurrentReader an
\* io.Reader: either may be nil.  A reader holds its bytes and says whether
\* it returns the last bytes together with io.EOF or in a separate call.
NilTimeout == [nil |-> TRUE, d |-> 0]
Timeouts == {NilTimeout} \cup [nil : {FALSE}, d : 0..MaxDur]
NilReader == [nil |-> TRUE, data |-> <<>>, eof |-> "separate"]
Readers ==
    {NilReader}
    \cup {[nil |-> FALSE, data |-> Bytes(0, n), eof |-> e] :
            n \in 0..MaxBody, e \in {"separate", "together"}}
NilError == NoErr
StoredError == errorsNew("construction")
Methods == {"GET", "HEAD", "POST"}
Requests ==
    [Error : {NilError, StoredError}, Method : Methods,
     CurrentReader : Readers, CurrentTimeout : Timeouts]

\* The Response Run returns (the fields fetch2http fills in)
NilResp == [nil |-> TRUE, Status |-> "", StatusCode |-> 0, Header |-> {},
            Body |-> "none", ContentLength |-> 0]

----------------------------------------------------------------------------
(* promiseHack *)

NewCell == [done |-> FALSE, res |-> Undefined, err |-> NoErr, writes |-> 0]

\* args[0].Get("message") panics when args[0] is not a JavaScript object
catchPanics(p) == p.kind \notin {"noargs", "object"}

\* the catch callback: done = true, then err from the payload
catchCallback(c, p) ==
    [c EXCEPT !.done = TRUE,
              !.err = IF p.kind = "noargs" THEN errorsNew("")
                      ELSE IF ~p.hasMessage THEN errorsNew(p.str)
                      ELSE errorsNew(p.message),
              !.writes = @ + 1]

\* a then callback that also resets err
thenCallbackClearsErr(c, arg) ==
    [c EXCEPT !.done = TRUE, !.res = arg, !.err = NoErr, !.writes = @ + 1]

\* the then callback: done = true, res = args[0]
thenCallback(c, arg) ==
    [c EXCEPT !.done = TRUE, !.res = arg, !.writes = @ + 1]

\* the poll loop leaving without looking at done
pollSeesDoneAlways(c) == TRUE

\* the poll loop: after each sleep, if done { return res, err }
pollSeesDone(c) == c.done

\* The callback turns the host owes once the promise settles:
\* p.catch(onRejected).then(onResolved).  A resolution skips the catch and
\* runs the then with the value; a rejection runs the catch and, the catch
\* having returned nil, the then with null.
OnResolve(v) == << [cb |-> "then", arg |-> v, payload |-> NoArgs] >>
OnReject(p) == << [cb |-> "catch", arg |-> Null, payload |-> p],
                  [cb |-> "then", arg |-> Null, payload |-> NoArgs] >>

----------------------------------------------------------------------------
(* createSignal / the timeout selection in Run *)

\* time.Duration.Milliseconds(): whole milliseconds, truncated
Milliseconds(d) == d \div UnitsPerMs

NoSignal == [armed |-> FALSE, ms |-> 0]

\* runSignal with the nil test of the first branch forgotten
runSignalDefaultAlways(req, def) ==
    IF def # 0
        THEN [armed |-> TRUE, ms |-> Milliseconds(def)]
    ELSE IF ~req.CurrentTimeout.nil /\ req.CurrentTimeout.d # 0
        THEN [armed |-> TRUE, ms |-> Milliseconds(req.CurrentTimeout.d)]
    ELSE NoSignal

\* Signal := js.Undefined(); then the two branches of Run
runSignal(req, def) ==
    IF req.CurrentTimeout.nil /\ def # 0
        THEN [armed |-> TRUE, ms |-> Milliseconds(def)]
    ELSE IF ~req.CurrentTimeout.nil /\ req.CurrentTimeout.d # 0
        THEN [armed |-> TRUE, ms |-> Milliseconds(req.CurrentTimeout.d)]
    ELSE NoSignal

\* runHasError with the test of r.Error left out
runHasErrorSkipped(req) == FALSE

\* if r.Error != nil { return nil, *r.Error }
runHasError(req) == ~req.Error.nil

\* delete(FetchArgs, "body") for GET and HEAD
runKeepsBody(req) == ~(req.Method = "GET" \/ req.Method = "HEAD")

----------------------------------------------------------------------------
(* createReadableStream *)

\* r.Read(b) on the source reader with pos bytes already consumed: what an
\* io.Reader may return for a buffer of cap bytes (short reads included)
readerReads(rdr, pos, cap) ==
    LET rem == Len(rdr.data) - pos IN
    IF rem = 0 THEN {[n |-> 0, err |-> EOF]}
    ELSE {[n |-> k,
           err |-> IF k = rem /\ rdr.eof = "together" THEN EOF ELSE NoErr] :
            k \in 1..Min(cap, rem)}

\* pullStep returning f after the close as well
pullStepKeepsPulling(h, rr, bytes) ==
    IF ~rr.err.nil
        THEN [h EXCEPT !.closed = TRUE, !.closes = @ + 1, !.srcReads = @ + 1]
        ELSE [h EXCEPT !.sent = Append(@, bytes), !.srcReads = @ + 1]

\* the pull function f, after n, err := r.Read(b): close on any error and
\* return undefined, otherwise enqueue the n bytes read and return f
pullStep(h, rr, bytes) ==
    IF ~rr.err.nil
        THEN [h EXCEPT !.closed = TRUE, !.closes = @ + 1, !.srcReads = @ + 1,
                       !.next = FALSE]
        ELSE [h EXCEPT !.sent = Append(@, bytes), !.srcReads = @ + 1]

----------------------------------------------------------------------------
(* goHeaders, fetch2http, blobReader.Read *)

\* http.Header.Set stores under textproto.CanonicalMIMEHeaderKey(name)
CanonicalHeaderKey(name) ==
    IF name = "etag" THEN "Etag"
    ELSE IF name = "x-id" THEN "X-Id"
    ELSE name

\* h.Set(name, value): replace whatever the key held
headerSet(h, name, value) ==
    LET k == CanonicalHeaderKey(name) IN
    {e \in h : e[1] # k} \cup {<<k, value>>}

\* goHeaders taking args[0] for the name and args[1] for the value
goHeadersSwapped(fetch) ==
    LET put(h, e) == {x \in h : x[1] # e[2]} \cup {<<e[2], e[1]>>}
        F[i \in 0..Len(fetch.headers)] ==
            IF i = 0 THEN {} ELSE put(F[i - 1], fetch.headers[i])
    IN  F[Len(fetch.headers)]

\* forEach over the host's entries, in the host's order
RECURSIVE goHeadersFrom(_, _)
goHeadersFrom(h, entries) ==
    IF entries = <<>> THEN h
    ELSE goHeadersFrom(headerSet(h, Head(entries)[1], Head(entries)[2]),
                       Tail(entries))
goHeaders(fetch) == goHeadersFrom({}, fetch.headers)

\* fetch2httpBody without the Size == 0 case
fetch2httpBodyAlwaysStream(size) == "stream"

\* Reader: an exhausted strings.Reader for Size 0, else a blobReader over
\* blob.stream().getReader()
fetch2httpBody(size) == IF size = 0 THEN "empty" ELSE "stream"

fetch2http(fetch, blob) ==
    [nil |-> FALSE, Status |-> fetch.statusText, StatusCode |-> fetch.status,
     Header |-> goHeaders(fetch), Body |-> fetch2httpBody(blob.size),
     ContentLength |-> blob.size]

\* js.CopyBytesToGo(p, value): copies min(len(p), len(value)) bytes
CopyBytesToGo(buf, value) == SubSeq(value, 1, Min(buf, Len(value)))

\* blobReader.Read(p), len(p) = buf, once promiseHack(read()) returned c
blobRead(c, buf) ==
    IF ~c.err.nil THEN [n |-> 0, err |-> c.err, data |-> <<>>]
    ELSE IF c.res.done THEN [n |-> 0, err |-> NoErr, data |-> <<>>]
    ELSE LET d == CopyBytesToGo(buf, c.res.value) IN
         [n |-> Len(d), err |-> NoErr, data |-> d]

\* strings.NewReader("").Read(p)
emptyRead == [n |-> 0, err |-> EOF, data |-> <<>>]

----------------------------------------------------------------------------
(* State *)

NoRet == [set |-> FALSE, resp |-> NilResp, err |-> NoErr, panic |-> "none"]
NoTimer == [armed |-> FALSE, ms |-> 0, at |-> 0, fired |-> FALSE, count |-> 0]
NoPromise == [site |-> "none", state |-> "none", value |-> Undefined,
              payload |-> NoArgs, returned |-> FALSE]
\* what promiseHack last returned, and for which promise
NoOut == [set |-> FALSE, of |-> NoPromise, res |-> Undefined, err |-> NoErr]
NoHost ==
    [fetchCalled |-> FALSE,     \* js.Global().Call("fetch", ...) was made
     signal |-> "none",         \* FetchArgs["signal"]
     method |-> "",             \* FetchArgs["method"]
     body |-> FALSE,            \* FetchArgs still holds "body"
     streams |-> 0,             \* ReadableStream objects constructed
     delay |-> 0,               \* when the host has its answer to the fetch
     outcome |-> "none",        \* and whether that answer is a response
     sent |-> <<>>,             \* chunks enqueued on the outgoing stream
     closed |-> FALSE,          \* controller.close() was called
     closes |-> 0,
     srcReads |-> 0,            \* r.Read calls made by the pull function
     srcErr |-> FALSE,          \* one of them returned an error or io.EOF
     next |-> TRUE,             \* the host holds f for the next pull
     pulls |-> 0,               \* host pulls of the outgoing stream
     response |-> Undefined,    \* the response object the fetch resolved to
     blobCalls |-> 0,           \* fetch.blob() calls
     streamReaders |-> 0,       \* blob.stream().getReader() calls
     readPulls |-> 0,           \* streamReader.read() calls
     left |-> <<>>,             \* chunks the stream reader has yet to deliver
     errored |-> FALSE]         \* the response stream has failed
NoReads == [calls |-> 0, buf |-> 0, got |-> <<>>, copied |-> <<>>, n |-> 0,
            err |-> NoErr, done |-> FALSE]

Init ==
    /\ r \in Requests
    /\ DefaultTimeout \in 0..MaxDur
    /\ pc = "start"
    /\ ret = NoRet
    /\ srcPos = 0
    /\ timer = NoTimer
    /\ aborted = FALSE
    /\ now = 0
    /\ host = NoHost
    /\ promise = NoPromise
    /\ cbq = <<>>
    /\ lateq = <<>>
    /\ cell = NewCell
    /\ out = NoOut
    /\ rd = NoReads

timerDue == timer.armed /\ ~timer.fired /\ now >= timer.at
fetchWaiting == promise.site = "fetch" /\ promise.state = "pending"
fetchDue == fetchWaiting /\ now >= host.delay
running == pc \in {"pollFetch", "pollBlob"}

\* promiseHack(p): register the callbacks on p and start polling
promiseHackCall(site) ==
    /\ promise' = [NoPromise EXCEPT !.site = site, !.state = "pending"]
    /\ cell' = NewCell
    /\ lateq' = lateq \o cbq
    /\ cbq' = <<>>

\* the host settles the promise and owes the callbacks their turns
resolve(v) ==
    /\ promise' = [promise EXCEPT !.state = "resolved", !.value = v]
    /\ cbq' = OnResolve(v)
reject(p) ==
    /\ promise' = [promise EXCEPT !.state = "rejected", !.payload = p]
    /\ cbq' = OnReject(p)

\* promiseHack returns res, err: callbacks still owed keep their (now
\* unread) variables
promiseHackReturned ==
    [set |-> TRUE, of |-> promise, res |-> cell.res, err |-> cell.err]
promiseHackReturn ==
    /\ out' = promiseHackReturned
    /\ promise' = [promise EXCEPT !.returned = TRUE]
    /\ lateq' = lateq \o cbq
    /\ cbq' = <<>>
    /\ UNCHANGED cell

----------------------------------------------------------------------------
(* Request.Run, up to the first poll of the fetch promise *)

Run ==
    /\ pc = "start"
    /\ IF runHasError(r)
       THEN /\ pc' = "returned"
            /\ ret' = [NoRet EXCEPT !.set = TRUE, !.err = r.Error]
            /\ UNCHANGED <<timer, host, promise, cbq, lateq, cell, out>>
       ELSE LET sig == runSignal(r, DefaultTimeout) IN
            \E d \in 0..MaxDelay, o \in {"resolve", "reject"} :
            /\ timer' = IF sig.armed
                        THEN [armed |-> TRUE, ms |-> sig.ms,
                              at |-> now + sig.ms * UnitsPerMs,
                              fired |-> FALSE, count |-> timer.count + 1]
                        ELSE timer
            /\ host' = [host EXCEPT
                          !.fetchCalled = TRUE,
                          !.signal = IF sig.armed THEN "signal" ELSE "undefined",
                          !.method = r.Method,
                          !.streams = @ + 1,
                          !.body = runKeepsBody(r),
                          !.delay = d,
                          !.outcome = o]
            /\ promiseHackCall("fetch")
            /\ pc' = "pollFetch"
            /\ UNCHANGED <<ret, out>>
    /\ UNCHANGED <<r, DefaultTimeout, srcPos, aborted, now, rd>>

----------------------------------------------------------------------------
(* The host *)

\* the clock advances while Run is waiting and nothing is due
Tick ==
    /\ running
    /\ ~timerDue /\ ~fetchDue
    /\ \/ timer.armed /\ ~timer.fired
       \/ fetchWaiting
    /\ now' = now + 1
    /\ UNCHANGED <<r, DefaultTimeout, pc, ret, srcPos, timer, aborted, host,
                   promise, cbq, lateq, cell, out, rd>>

\* setTimeout elapses: controller.abort
TimerFire ==
    /\ running
    /\ timerDue
    /\ timer' = [timer EXCEPT !.fired = TRUE]
    /\ aborted' = TRUE
    /\ UNCHANGED <<r, DefaultTimeout, pc, ret, srcPos, now, host, promise,
                   cbq, lateq, cell, out, rd>>

\* the host pulls the request body: one call of the pull function f
HostPull ==
    /\ pc = "pollFetch"
    /\ fetchWaiting /\ host.body /\ host.next /\ ~aborted
    /\ IF r.CurrentReader.nil
       THEN /\ pc' = "panicked"
            /\ ret' = [ret EXCEPT !.panic = "pull"]
            /\ host' = [host EXCEPT !.pulls = @ + 1]
            /\ UNCHANGED srcPos
       ELSE \E rr \in readerReads(r.CurrentReader, srcPos, ChunkSize) :
            /\ srcPos' = srcPos + rr.n
            /\ host' = [pullStep(host, rr, Bytes(srcPos, rr.n))
                           EXCEPT !.pulls = @ + 1,
                                  !.srcErr = @ \/ ~rr.err.nil]
            /\ UNCHANGED <<pc, ret>>
    /\ UNCHANGED <<r, DefaultTimeout, timer, aborted, now, promise, cbq,
                   lateq, cell, out, rd>>

\* the fetch promise settles: rejected once aborted, else as the host's
\* answer says
HostSettleFetch ==
    /\ pc = "pollFetch"
    /\ fetchWaiting
    /\ aborted \/ now >= host.delay
    /\ IF aborted THEN reject(AbortError)
       ELSE IF host.outcome = "reject"
            THEN \E p \in Payloads : reject(p)
       ELSE \E resp \in HostResponses : resolve(resp)
    /\ UNCHANGED <<r, DefaultTimeout, pc, ret, srcPos, timer, aborted, now,
                   host, lateq, cell, out, rd>>

\* the blob promise settles: with the body, or rejected if the request was
\* aborted before the body was complete
HostSettleBlob ==
    /\ pc = "pollBlob"
    /\ promise.site = "blob" /\ promise.state = "pending"
    /\ \/ resolve(HostBlob(host.response.body))
       \/ aborted /\ reject(AbortError)
    /\ UNCHANGED <<r, DefaultTimeout, pc, ret, srcPos, timer, aborted, now,
                   host, lateq, cell, out, rd>>

\* a read() promise settles: the next chunk, done, or a rejection (the
\* stream fails, and every later read is rejected too)
HostSettleRead ==
    /\ pc = "pollRead"
    /\ promise.site = "read" /\ promise.state = "pending"
    /\ \/ /\ ~host.errored /\ host.left # <<>>
          /\ resolve(ReadResult(FALSE, Head(host.left)))
          /\ host' = [host EXCEPT !.left = Tail(@)]
       \/ /\ ~host.errored /\ host.left = <<>>
          /\ resolve(ReadResult(TRUE, <<>>))
          /\ UNCHANGED host
       \/ /\ \E p \in Payloads : reject(p)
          /\ host' = [host EXCEPT !.errored = TRUE]
    /\ UNCHANGED <<r, DefaultTimeout, pc, ret, srcPos, timer, aborted, now,
                   lateq, cell, out, rd>>

\* one callback turn of the promise being polled
Callback ==
    /\ pc \in {"pollFetch", "pollBlob", "pollRead"}
    /\ cbq # <<>>
    /\ LET h == Head(cbq) IN
       IF h.cb = "catch"
       THEN IF catchPanics(h.payload)
            THEN /\ pc' = "panicked"
                 /\ ret' = [ret EXCEPT !.panic = "catch"]
                 /\ cell' = [cell EXCEPT !.done = TRUE, !.writes = @ + 1]
                 /\ cbq' = <<>>
            ELSE /\ cell' = catchCallback(cell, h.payload)
                 /\ cbq' = Tail(cbq)
                 /\ UNCHANGED <<pc, ret>>
       ELSE /\ cell' = thenCallback(cell, h.arg)
            /\ cbq' = Tail(cbq)
            /\ UNCHANGED <<pc, ret>>
    /\ UNCHANGED <<r, DefaultTimeout, srcPos, timer, aborted, now, host,
                   promise, lateq, out, rd>>

\* a callback turn that arrives after its promiseHack returned: it writes
\* variables nothing reads any more
LateCallback ==
    /\ pc # "panicked"
    /\ lateq # <<>>
    /\ lateq' = Tail(lateq)
    /\ UNCHANGED <<r, DefaultTimeout, pc, ret, srcPos, timer, aborted, now,
                   host, promise, cbq, cell, out, rd>>

----------------------------------------------------------------------------
(* The poll loop of promiseHack sees done, and the caller goes on *)

\* fetch() returned to Run: the error as it is, or on to fetch2http, which
\* asks for the blob
PollFetch ==
    /\ pc = "pollFetch"
    /\ pollSeesDone(cell)
    /\ IF ~cell.err.nil
       THEN /\ pc' = "returned"
            /\ ret' = [NoRet EXCEPT !.set = TRUE, !.err = cell.err]
            /\ promiseHackReturn
            /\ UNCHANGED host
       ELSE /\ pc' = "pollBlob"
            /\ host' = [host EXCEPT !.response = cell.res, !.blobCalls = @ + 1]
            /\ out' = promiseHackReturned
            /\ promiseHackCall("blob")
            /\ UNCHANGED ret
    /\ UNCHANGED <<r, DefaultTimeout, srcPos, timer, aborted, now, rd>>

\* promiseHack(fetch.Call("blob")) returned to fetch2http: panic(err), or
\* the Response, which Run returns
PollBlob ==
    /\ pc = "pollBlob"
    /\ pollSeesDone(cell)
    /\ IF ~cell.err.nil
       THEN /\ pc' = "panicked"
            /\ ret' = [ret EXCEPT !.panic = "blob"]
            /\ UNCHANGED host
       ELSE LET resp == fetch2http(host.response, cell.res) IN
            /\ pc' = "returned"
            /\ ret' = [NoRet EXCEPT !.set = TRUE, !.resp = resp]
            /\ host' = IF resp.Body = "stream"
                       THEN [host EXCEPT !.streamReaders = @ + 1,
                                         !.left = cell.res.body]
                       ELSE host
    /\ promiseHackReturn
    /\ UNCHANGED <<r, DefaultTimeout, srcPos, timer, aborted, now, rd>>

\* the caller reads Response.Body with a buffer of buf bytes
ReadBody ==
    /\ pc = "returned"
    /\ ~ret.resp.nil
    /\ rd.calls < MaxReads
    /\ \E buf \in 1..MaxBuf :
       IF ret.resp.Body = "empty"
       THEN /\ rd' = [rd EXCEPT !.calls = @ + 1, !.buf = buf,
                                !.copied = emptyRead.data, !.n = emptyRead.n, !.err = emptyRead.err,
                                !.done = FALSE]
            /\ UNCHANGED <<pc, host, promise, cbq, lateq, cell, out>>
       ELSE /\ rd' = [rd EXCEPT !.buf = buf]
            /\ host' = [host EXCEPT !.readPulls = @ + 1]
            /\ promiseHackCall("read")
            /\ pc' = "pollRead"
            /\ UNCHANGED out
    /\ UNCHANGED <<r, DefaultTimeout, ret, srcPos, timer, aborted, now>>

\* promiseHack(streamReader.read()) returned to blobReader.Read
PollRead ==
    /\ pc = "pollRead"
    /\ pollSeesDone(cell)
    /\ LET got == blobRead(cell, rd.buf) IN
       rd' = [rd EXCEPT !.calls = @ + 1, !.got = @ \o got.data,
                        !.copied = got.data, !.n = got.n, !.err = got.err,
                        !.done = cell.err.nil /\ cell.res.done]
    /\ pc' = "returned"
    /\ promiseHackReturn
    /\ UNCHANGED <<r, DefaultTimeout, ret, srcPos, timer, aborted, now, host>>

----------------------------------------------------------------------------

\* Run, from the call to its return or panic, and the host beside it
Next ==
    \/ Run
    \/ Tick
    \/ TimerFire
    \/ HostPull
    \/ HostSettleFetch
    \/ HostSettleBlob
    \/ Callback
    \/ LateCallback
    \/ PollFetch
    \/ PollBlob

Spec == Init /\ [][Next]_vars

\* Run of a request without body reader or timeout, and the caller reading
\* the body of the Response it returned
PlainRequest ==
    [Error |-> NilError, Method |-> "GET", CurrentReader |-> NilReader,
     CurrentTimeout |-> NilTimeout]

InitBody == Init /\ r = PlainRequest /\ DefaultTimeout = 0

NextBody ==
    \/ Run
    \/ Tick
    \/ HostSettleFetch
    \/ HostSettleBlob
    \/ HostSettleRead
    \/ Callback
    \/ LateCallback
    \/ PollFetch
    \/ PollBlob
    \/ ReadBody
    \/ PollRead

SpecBody == InitBody /\ [][NextBody]_vars

----------------------------------------------------------------------------
(* Properties *)

ended == pc \in {"returned", "panicked"}
bodyless == r.Method \in {"GET", "HEAD"}
hostUntouched ==
    /\ host = NoHost
    /\ timer = NoTimer
    /\ ~aborted
    /\ promise = NoPromise
\* the timeout in force: the explicit one, or the default for want of one
effectiveTimeout ==
    IF r.CurrentTimeout.nil THEN DefaultTimeout ELSE r.CurrentTimeout.d

\* C1: Run never panics: whatever the host does -- the fetch promise
\* resolves, it rejects with an error object, the timeout aborts at any
\* moment, also between the fetch resolving and the blob settling -- Run
\* ends by returning.  Stated for requests whose body reader is there when
\* a body is sent, and for rejections that carry an object.
C1_RunNeverPanics ==
    pc = "panicked" =>
        \/ r.CurrentReader.nil /\ ~bodyless
        \/ promise.state = "rejected" /\ promise.payload.kind # "object"

\* C2: a Request with a stored construction error makes Run return exactly
\* that error and a nil Response, with no host interaction: no timer or
\* abort controller, no body stream, no fetch.
C2_StoredErrorShortCircuits ==
    ~r.Error.nil =>
        /\ hostUntouched
        /\ pc \in {"start", "returned"}
        /\ pc = "returned" => ret.set /\ ret.resp.nil /\ ret.err = r.Error

C2_Witness == ~r.Error.nil /\ pc = "returned" /\ ret.err = StoredError

\* C3: for a GET or HEAD Request no outgoing body stream is ever
\* constructed, and none is passed to fetch, body reader or not.
C3_NoBodyStreamForGetHead ==
    bodyless => host.streams = 0 /\ ~host.body

\* C4: with an explicit timeout of zero, whatever the default timeout, Run
\* arms no timer and creates no abort controller, passes the undefined
\* signal to fetch, and no abort is ever asserted.
C4_ZeroTimeoutNeverAborts ==
    (~r.CurrentTimeout.nil /\ r.CurrentTimeout.d = 0) =>
        /\ timer = NoTimer
        /\ ~aborted
        /\ host.fetchCalled => host.signal = "undefined"

C4_Witness ==
    /\ ~r.CurrentTimeout.nil /\ r.CurrentTimeout.d = 0
    /\ DefaultTimeout # 0
    /\ host.fetchCalled /\ now > 0
    /\ pc = "returned" /\ ~ret.resp.nil

\* C5: with a non-zero timeout T armed, a fetch the host would resolve
\* after a delay shorter than T makes Run return a Response with the host's
\* status code and a nil error; one it would answer only after a delay
\* longer than T is aborted first, and Run returns an error.  Stated for T a
\* whole number of milliseconds and a body reader that is there.
C5_TimeoutDecidesOutcome ==
    ( /\ timer.armed /\ ended
      /\ effectiveTimeout % UnitsPerMs = 0
      /\ ~r.CurrentReader.nil \/ bodyless ) =>
        /\ (host.outcome = "resolve" /\ host.delay < effectiveTimeout) =>
               /\ pc = "returned"
               /\ ~ret.resp.nil /\ ret.err.nil
               /\ ret.resp.StatusCode = host.response.status
        /\ host.delay > effectiveTimeout =>
               /\ pc = "returned"
               /\ ret.resp.nil /\ ~ret.err.nil

\* C6: the bytes successive Read calls return, in call order, are the
\* host's chunks concatenated, whatever the buffer length: when the stream
\* reports done, every byte of the body has been handed to the caller.
C6_BodyBytesPreserved ==
    (pc = "returned" /\ rd.done) => rd.got = Flatten(host.response.body)

\* C7: a Read whose pull the host answers with done reports end-of-data:
\* it returns io.EOF, not a zero-byte success.
C7_DoneReportsEOF ==
    (pc = "returned" /\ rd.done) => rd.n = 0 /\ rd.err = EOF

\* C8: a body blob of size zero gives a Response with content length 0,
\* whose body reports end-of-data on the first Read, and for which no host
\* stream or stream reader is created and no read pull is issued.
C8_EmptyBodyNoStream ==
    (ret.set /\ ~ret.resp.nil /\ host.response.body = <<>>) =>
        /\ ret.resp.ContentLength = 0
        /\ host.streamReaders = 0 /\ host.readPulls = 0
        /\ rd.calls > 0 => rd.n = 0 /\ rd.err = EOF

C8_Witness ==
    /\ ret.set /\ ~ret.resp.nil /\ host.response.body = <<>>
    /\ rd.calls > 0 /\ rd.err = EOF

\* C9: round trip of the request body: once the host has pulled the
\* outgoing stream to its close, the chunks enqueued, concatenated, are the
\* bytes of the source reader -- also when the reader returns its last
\* bytes together with io.EOF.
C9_OutgoingRoundTrip ==
    host.closed => Flatten(host.sent) = r.CurrentReader.data

\* C10: promiseHack returns the resolved value and a nil error when the
\* promise resolves; when it rejects, an error whose text is the payload's
\* message, or String(payload) when the payload has no message field, or
\* empty when the callback got no payload at all.
C10_BridgeMapsOutcome ==
    /\ ret.panic # "catch"
    /\ out.set =>
         IF out.of.state = "resolved"
         THEN out.err.nil /\ out.res = out.of.value
         ELSE /\ ~out.err.nil
              /\ out.err.msg =
                    IF out.of.payload.kind = "noargs" THEN ""
                    ELSE IF out.of.payload.hasMessage
                         THEN out.of.payload.message
                    ELSE out.of.payload.str

\* C11: when the fetch promise rejects -- an ordinary rejection or the
\* abort of the timeout -- Run returns a nil Response and the error
\* promiseHack returned, and fetch2http is never entered: no blob is asked
\* for, no stream reader taken; and a Response Run returns comes with a nil
\* error.
C11_RejectionShortCircuits ==
    /\ (promise.site = "fetch" /\ promise.state = "rejected" /\ ended) =>
          /\ pc = "returned"
          /\ ret.set /\ ret.resp.nil
          /\ ~ret.err.nil /\ ret.err = out.err
          /\ host.blobCalls = 0 /\ host.streamReaders = 0
          /\ host.readPulls = 0
    /\ (ret.set /\ ~ret.resp.nil) => ret.err.nil

\* C12: the cell done/res/err of a promiseHack call is written by one
\* callback invocation only, whether the promise resolves or rejects.
C12_CellWrittenOnce ==
    cell.writes <= 1

\* C13: promiseHack does not return while the promise is pending: what it
\* has returned belongs to a settled promise, and is not the pair the
\* variables start with (undefined, nil).
C13_NoReturnWhilePending ==
    out.set =>
        /\ out.of.state \in {"resolved", "rejected"}
        /\ out.res.t # "undefined" \/ ~out.err.nil
C13_Witness ==
    /\ out.set /\ out.of.site = "fetch" /\ out.of.state = "resolved"
    /\ pc = "pollBlob"

\* C14: the poll loop and the callbacks being taken fairly, promiseHack
\* returns once the promise has settled: as long as it has not returned for
\* a settled promise, a callback turn or the return is there to be taken;
\* and while the promise is pending the return is not.
C14_SettledBridgeReturns ==
    /\ (promise.state \in {"resolved", "rejected"} /\ ~promise.returned) =>
          ENABLED (Callback \/ PollFetch \/ PollBlob \/ PollRead)
    /\ promise.state = "pending" =>
          ~ENABLED (PollFetch \/ PollBlob \/ PollRead)

\* C15: a request that is neither GET nor HEAD and has no body reader
\* sends the stream of an empty reader: the host's first pull closes the
\* stream with nothing enqueued, and nothing panics.
C15_NilReaderIsEmptyBody ==
    (~bodyless /\ r.CurrentReader.nil /\ host.pulls >= 1) =>
        /\ ret.panic # "pull"
        /\ host.closed /\ host.sent = <<>>

\* C16: each pull of the outgoing stream reads the source reader at most
\* once; a read that returns an error or io.EOF closes the stream, once,
\* and after it nothing more is enqueued and the reader is not read again.
C16_PullReadsOnceClosesOnce ==
    /\ [](/\ host.srcReads <= host.pulls
          /\ host.closes <= 1
          /\ host.srcErr <=> host.closed
          /\ host.closed => host.closes = 1)
    /\ [][host.srcErr =>
            /\ host'.sent = host.sent
            /\ host'.srcReads = host.srcReads
            /\ host'.closes = host.closes]_vars
C16_Witness ==
    /\ host.closed /\ Len(host.sent) = 2 /\ host.pulls = 3
    /\ pc = "returned"

hostEntries == host.response.headers
headerKeys == {e[1] : e \in ret.resp.Header}
responseMirrorsHost ==
    /\ ret.resp.StatusCode = host.response.status
    /\ ret.resp.Status = host.response.statusText
    /\ ret.resp.ContentLength = SumLen(host.response.body)

\* C18 as the specification has it: the Response carries the host's status
\* code, status text and blob size, and a header map whose keys are the
\* names the host enumerates, each with the value of the last entry of
\* that name.
C18_ResponseMirrorsHost ==
    (pc = "returned" /\ ~ret.resp.nil) =>
        /\ responseMirrorsHost
        /\ headerKeys = {hostEntries[i][1] : i \in DOMAIN hostEntries}
        /\ \A e \in ret.resp.Header :
              \E i \in DOMAIN hostEntries :
                 /\ hostEntries[i] = e
                 /\ \A j \in DOMAIN hostEntries :
                       j > i => hostEntries[j][1] # e[1]

\* C18: the same, the keys of the header map being the canonical forms of
\* the names the host enumerates (Header.Set canonicalises), each with the
\* value of the last entry whose name has that canonical form.
C18_ResponseMirrorsHostCanonical ==
    (pc = "returned" /\ ~ret.resp.nil) =>
        /\ responseMirrorsHost
        /\ headerKeys =
              {CanonicalHeaderKey(hostEntries[i][1]) : i \in DOMAIN hostEntries}
        /\ \A e \in ret.resp.Header :
              \E i \in DOMAIN hostEntries :
                 /\ CanonicalHeaderKey(hostEntries[i][1]) = e[1]
                 /\ hostEntries[i][2] = e[2]
                 /\ \A j \in DOMAIN hostEntries :
                       j > i => CanonicalHeaderKey(hostEntries[j][1]) # e[1]
C18_Witness ==
    /\ pc = "returned" /\ ~ret.resp.nil
    /\ ret.resp.StatusCode = 404
    /\ ret.resp.Header = {<<"X-Id", "b">>}
    /\ ret.resp.ContentLength = 2

\* C19: a read of the response body whose host read promise rejects
\* returns 0 and an error made from the rejection, copies nothing into the
\* caller's buffer and does not panic; Run has returned the Response
\* before.
C19_ReadRejectionIsAnError ==
    (promise.site = "read" /\ promise.state = "rejected" /\ ended) =>
        /\ pc = "returned" /\ ret.panic = "none"
        /\ ret.set /\ ~ret.resp.nil /\ ret.err.nil
        /\ rd.n = 0 /\ rd.copied = <<>>
        /\ ~rd.err.nil /\ rd.err = out.err

\* C20: the then callback being chained after the catch callback, both run
\* on a rejection; whether the poll loop wakes between the two or after
\* both, the error promiseHack returns for a rejected promise is not nil,
\* and the one it returns for a resolved promise is nil.
C20_ChainedThenKeepsError ==
    out.set =>
        /\ out.of.state = "rejected" => ~out.err.nil
        /\ out.of.state = "resolved" => out.err.nil
C20_Witness ==
    /\ out.set /\ out.of.state = "rejected" /\ out.res = Null
    /\ ~out.err.nil

====
